---- MODULE Spec2Model ----
(***************************************************************************)
(* Library Management System API (src/app/main.py): the SQLite-backed      *)
(* CRUD service for books, staff and readers, its request models and its   *)
(* JSON validation endpoints.                                              *)
(*                                                                         *)
(* Strings are sequences of one-character strings, so that str.strip()     *)
(* and the emptiness tests are computed.  Optional[T] is a set with no     *)
(* element (None / SQL NULL) or one element.  A JSON value of a request    *)
(* body is a record tagged with its kind; a key that the body does not     *)
(* carry is the value JAbsent.                                             *)
(*                                                                         *)
(* Spec handles one request after the other; SpecStored does so on a       *)
(* database file that already holds a reader; SpecValidate is the          *)
(* validation endpoints alone; SpecConcurrent runs the book handlers side  *)
(* by side, one statement at a time; SpecFaults does the same with         *)
(* statements that raise a database error; SpecAdvanced is the advanced    *)
(* book endpoints with PUT /books/{book_id}; SpecFiles is the conversion   *)
(* of the text files (src/app/convert_to_json.py).                         *)
(***************************************************************************)
EXTENDS Integers, Sequences, FiniteSets, TLC

VARIABLES books, staff, readers, seq, schema, req, resp, refBooks, issued,
          inflight, wlog, txt, json, removed

vars == <<books, staff, readers, seq, schema, req, resp, refBooks, issued,
          inflight, wlog, txt, json, removed>>

\* the state of the request handlers that run side by side
handlers == <<inflight, wlog>>

\* the text files of the data directory and their conversions
textfiles == <<txt, json, removed>>

tables == <<books, staff, readers>>

----------------------------------------------------------------------------
(* Bounds of the model *)

\* total number of INSERTs the model follows (AUTOINCREMENT is unbounded)
MaxInserts == 2

\* longest string sent to the validation endpoints
MaxLen == 2

\* requests handled side by side
MaxRequests == 3

\* lines of a text file of the data directory
MaxLines == 3

\* lines an editor removes from the text files
MaxRemovals == 1

----------------------------------------------------------------------------
(* Values *)

None == {}

Some(v) == {v}

Val(o) == CHOOSE v \in o : TRUE

Str0 == << >>

StrA == <<"a">>

StrX == <<"x">>

StrG == <<"g">>

StrC == <<"c">>

StrPadA == <<" ", "a">>

StrBlank == <<" ">>

Chars == {" ", "a"}

StringsUpTo(n) == UNION {[1..k -> Chars] : k \in 0..n}

JAbsent == [kind |-> "absent"]

JNull == [kind |-> "null"]

JStr(s) == [kind |-> "str", s |-> s]

JInt(n) == [kind |-> "int", n |-> n]

JObj(o) == [kind |-> "obj", o |-> o]

JList(l) == [kind |-> "list", l |-> l]

----------------------------------------------------------------------------
(* str.strip() and truthiness of a string *)

isspace(c) == c \in {" ", "\n"}

RECURSIVE lstrip(_)
lstrip(s) ==
    IF s = << >> THEN s
    ELSE IF isspace(Head(s)) THEN lstrip(Tail(s)) ELSE s

RECURSIVE rstrip(_)
rstrip(s) ==
    IF s = << >> THEN s
    ELSE IF isspace(s[Len(s)]) THEN rstrip(SubSeq(s, 1, Len(s) - 1)) ELSE s

\* str.lstrip in the place of str.strip
strip_leading(s) == lstrip(s)

strip(s) == rstrip(lstrip(s))

\* "not v" for a str
StrFalsy(s) == s = << >>

----------------------------------------------------------------------------
(* Field parsing of the request models (pydantic): a str field takes a     *)
(* JSON string only, an Optional field takes null, an omitted field takes  *)
(* its default.                                                            *)

Bad == [ok |-> FALSE]

StrFieldOk(j) == j.kind = "str"

OptStrFieldOk(j) == j.kind \in {"absent", "null", "str"}

OptIntFieldOk(j) == j.kind \in {"absent", "null", "int"}

\* the value of a JSON string or integer
JVal(j) == IF j.kind = "str" THEN j.s ELSE j.n

OptField(j, default) ==
    IF j.kind = "absent" THEN default
    ELSE IF j.kind = "null" THEN None
    ELSE Some(JVal(j))

\* BookBase with `stock: Optional[int] = None`
BookCreate_nodefault(j) ==
    IF StrFieldOk(j.title) /\ StrFieldOk(j.author)
       /\ OptStrFieldOk(j.genre) /\ OptIntFieldOk(j.stock)
    THEN [ok |-> TRUE, title |-> j.title.s, author |-> j.author.s,
          genre |-> OptField(j.genre, None), stock |-> OptField(j.stock, None)]
    ELSE Bad

\* class BookBase / BookCreate
BookCreate(j) ==
    IF StrFieldOk(j.title) /\ StrFieldOk(j.author)
       /\ OptStrFieldOk(j.genre) /\ OptIntFieldOk(j.stock)
    THEN [ok |-> TRUE, title |-> j.title.s, author |-> j.author.s,
          genre |-> OptField(j.genre, None), stock |-> OptField(j.stock, Some(1))]
    ELSE Bad

\* class BookUpdate
BookUpdate(j) ==
    IF OptStrFieldOk(j.title) /\ OptStrFieldOk(j.author)
       /\ OptStrFieldOk(j.genre) /\ OptIntFieldOk(j.stock)
    THEN [ok |-> TRUE, title |-> OptField(j.title, None),
          author |-> OptField(j.author, None),
          genre |-> OptField(j.genre, None), stock |-> OptField(j.stock, None)]
    ELSE Bad

\* class StaffBase / StaffCreate
StaffCreate(j) ==
    IF StrFieldOk(j.name) /\ StrFieldOk(j.role) /\ OptStrFieldOk(j.contact)
    THEN [ok |-> TRUE, name |-> j.name.s, role |-> j.role.s,
          contact |-> OptField(j.contact, None)]
    ELSE Bad

\* class StaffUpdate
StaffUpdate(j) ==
    IF OptStrFieldOk(j.name) /\ OptStrFieldOk(j.role) /\ OptStrFieldOk(j.contact)
    THEN [ok |-> TRUE, name |-> OptField(j.name, None),
          role |-> OptField(j.role, None), contact |-> OptField(j.contact, None)]
    ELSE Bad

\* class ReaderBase / ReaderCreate
ReaderCreate(j) ==
    IF StrFieldOk(j.name) /\ OptStrFieldOk(j.contact)
    THEN [ok |-> TRUE, name |-> j.name.s, contact |-> OptField(j.contact, None)]
    ELSE Bad

\* class ReaderUpdate
ReaderUpdate(j) ==
    IF OptStrFieldOk(j.name) /\ OptStrFieldOk(j.contact)
    THEN [ok |-> TRUE, name |-> OptField(j.name, None),
          contact |-> OptField(j.contact, None)]
    ELSE Bad

\* class BookDetails
BookDetails(j) ==
    IF j.kind = "obj" /\ OptStrFieldOk(j.o.genre) /\ OptIntFieldOk(j.o.stock)
    THEN [ok |-> TRUE, genre |-> OptField(j.o.genre, None),
          stock |-> OptField(j.o.stock, Some(1))]
    ELSE Bad

\* the validator testing only "not v"
not_empty_noblank(v) ==
    IF StrFalsy(v) THEN Bad
    ELSE [ok |-> TRUE, v |-> strip(v)]

\* the validator returning v as it came
not_empty_nostrip(v) ==
    IF StrFalsy(v) \/ StrFalsy(strip(v)) THEN Bad
    ELSE [ok |-> TRUE, v |-> v]

\* BookAdvancedCreate.title_not_empty / author_not_empty
not_empty(v) ==
    IF StrFalsy(v) \/ StrFalsy(strip(v)) THEN Bad
    ELSE [ok |-> TRUE, v |-> strip(v)]

\* class BookAdvancedCreate
BookAdvancedCreate(j) ==
    IF StrFieldOk(j.title) /\ StrFieldOk(j.author) /\ BookDetails(j.details).ok
       /\ not_empty(j.title.s).ok /\ not_empty(j.author.s).ok
    THEN [ok |-> TRUE, title |-> not_empty(j.title.s).v,
          author |-> not_empty(j.author.s).v,
          details |-> [genre |-> BookDetails(j.details).genre,
                       stock |-> BookDetails(j.details).stock]]
    ELSE Bad

\* class ReaderDetails
ReaderDetails(j) ==
    IF j.kind = "obj" /\ OptStrFieldOk(j.o.contact)
       /\ j.o.borrowed_books.kind \in {"absent", "list"}
    THEN [ok |-> TRUE, contact |-> OptField(j.o.contact, None),
          borrowed_books |-> IF j.o.borrowed_books.kind = "absent" THEN << >>
                             ELSE j.o.borrowed_books.l]
    ELSE Bad

\* class ReaderAdvancedCreate
ReaderAdvancedCreate(j) ==
    IF StrFieldOk(j.name) /\ ReaderDetails(j.details).ok
    THEN [ok |-> TRUE, name |-> j.name.s,
          details |-> [contact |-> ReaderDetails(j.details).contact,
                       borrowed_books |-> ReaderDetails(j.details).borrowed_books]]
    ELSE Bad

\* validate_book_json: (is_valid, model_dump) or (False, message)
validate_book_json(json_data) ==
    IF BookAdvancedCreate(json_data).ok
    THEN [is_valid |-> TRUE, result |-> BookAdvancedCreate(json_data)]
    ELSE [is_valid |-> FALSE, result |-> Bad]

\* validate_reader_json
validate_reader_json(json_data) ==
    IF ReaderAdvancedCreate(json_data).ok
    THEN [is_valid |-> TRUE, result |-> ReaderAdvancedCreate(json_data)]
    ELSE [is_valid |-> FALSE, result |-> Bad]

----------------------------------------------------------------------------
(* DatabaseManager: a table is the set of its rows; seq is sqlite_sequence, *)
(* the largest rowid AUTOINCREMENT has handed out in each table.            *)

Max(a, b) == IF a >= b THEN a ELSE b

MaxKey(tbl, key) ==
    IF tbl = {} THEN 0
    ELSE CHOOSE m \in {r[key] : r \in tbl} : \A r \in tbl : r[key] <= m

\* rowid of the next INSERT into a table whose key is INTEGER PRIMARY KEY
\* without AUTOINCREMENT
NextRowId_rowid(tbl, key, seqn) == MaxKey(tbl, key) + 1

\* rowid of the next INSERT into an AUTOINCREMENT table
NextRowId(tbl, key, seqn) == Max(seqn, MaxKey(tbl, key)) + 1

\* fetchall handing out every row twice
RECURSIVE execute_query_twice(_, _)
execute_query_twice(rows, key) ==
    IF rows = {} THEN << >>
    ELSE LET first == CHOOSE r \in rows : \A q \in rows : r[key] <= q[key]
         IN <<first, first>> \o execute_query_twice(rows \ {first}, key)

\* execute_query: the rows of a SELECT, in rowid order
RECURSIVE execute_query(_, _)
execute_query(rows, key) ==
    IF rows = {} THEN << >>
    ELSE LET first == CHOOSE r \in rows : \A q \in rows : r[key] <= q[key]
         IN <<first>> \o execute_query(rows \ {first}, key)

\* the SELECT with its WHERE clause lost
SelectById_nowhere(tbl, key, id) == execute_query(tbl, key)

\* SELECT * FROM t WHERE key = id
SelectById(tbl, key, id) == execute_query({r \in tbl : r[key] = id}, key)

\* results[0] if results else None
FirstOrNone(results) == IF results = << >> THEN None ELSE Some(results[1])

\* columns declared NOT NULL hold the text itself, the others hold an Optional
NotNullCols == {"title", "author", "name", "role"}

\* "if book_data.title:" in place of "is not None"
updates_truthy(data, cols) ==
    {c \in cols : /\ data[c] # None
                  /\ IF c = "stock" THEN Val(data[c]) # 0 ELSE Val(data[c]) # << >>}

\* the list with "is not None" tested for the NOT NULL columns only
updates_nullable(data, cols) == {c \in cols : data[c] # None \/ c \notin NotNullCols}

\* the "updates" list of update_book / update_staff / update_reader
updates(data, cols) == {c \in cols : data[c] # None}

\* the UPDATE with its WHERE clause lost
SqlUpdate_nowhere(tbl, key, id, data, cols) ==
    {[c \in DOMAIN r |->
         IF c \in cols
         THEN (IF c \in NotNullCols THEN Val(data[c]) ELSE data[c])
         ELSE r[c]] : r \in tbl}

\* UPDATE t SET <cols> WHERE key = id
SqlUpdate(tbl, key, id, data, cols) ==
    {IF r[key] = id
     THEN [c \in DOMAIN r |->
              IF c \in cols
              THEN (IF c \in NotNullCols THEN Val(data[c]) ELSE data[c])
              ELSE r[c]]
     ELSE r : r \in tbl}

\* the DELETE with its WHERE clause lost
SqlDelete_nowhere(tbl, key, id) == {}

\* DELETE FROM t WHERE key = id
SqlDelete(tbl, key, id) == {r \in tbl : r[key] # id}

\* json.loads of a stored borrowed_books text: '[]', which is what
\* create_reader stores, and '[1]'
json_loads(s) ==
    IF s = <<"[", "]">> THEN [ok |-> TRUE, v |-> << >>]
    ELSE IF s = <<"[", "1", "]">> THEN [ok |-> TRUE, v |-> <<1>>]
    ELSE Bad

BookCols == {"title", "author", "genre", "stock"}

StaffCols == {"name", "role", "contact"}

ReaderCols == {"name", "contact"}

----------------------------------------------------------------------------
(* LibraryCRUD *)

get_all_books == execute_query(books, "book_id")

get_book_by_id(tbl, book_id) == FirstOrNone(SelectById(tbl, "book_id", book_id))

\* the INSERT with title and author in each other's place
crud_create_book_swapped(tbl, seqn, book_data) ==
    [book_id |-> NextRowId(tbl, "book_id", seqn),
     title |-> book_data.author, author |-> book_data.title,
     genre |-> book_data.genre, stock |-> book_data.stock]

\* LibraryCRUD.create_book: the row INSERTed
crud_create_book(tbl, seqn, book_data) ==
    [book_id |-> NextRowId(tbl, "book_id", seqn),
     title |-> book_data.title, author |-> book_data.author,
     genre |-> book_data.genre, stock |-> book_data.stock]

\* LibraryCRUD.update_book: the table afterwards
crud_update_book(tbl, book_id, book_data) ==
    IF updates(book_data, BookCols) = {} THEN tbl
    ELSE SqlUpdate(tbl, "book_id", book_id, book_data, updates(book_data, BookCols))

crud_delete_book(tbl, book_id) == SqlDelete(tbl, "book_id", book_id)

get_all_staff == execute_query(staff, "staff_id")

get_staff_by_id(tbl, staff_id) == FirstOrNone(SelectById(tbl, "staff_id", staff_id))

crud_create_staff(tbl, seqn, staff_data) ==
    [staff_id |-> NextRowId(tbl, "staff_id", seqn),
     name |-> staff_data.name, role |-> staff_data.role,
     contact |-> staff_data.contact]

crud_update_staff(tbl, staff_id, staff_data) ==
    IF updates(staff_data, StaffCols) = {} THEN tbl
    ELSE SqlUpdate(tbl, "staff_id", staff_id, staff_data, updates(staff_data, StaffCols))

crud_delete_staff(tbl, staff_id) == SqlDelete(tbl, "staff_id", staff_id)

get_all_readers == execute_query(readers, "reader_id")

get_reader_by_id(tbl, reader_id) == FirstOrNone(SelectById(tbl, "reader_id", reader_id))

crud_create_reader(tbl, seqn, reader_data) ==
    [reader_id |-> NextRowId(tbl, "reader_id", seqn),
     name |-> reader_data.name, contact |-> reader_data.contact,
     borrowed_books |-> <<"[", "]">>]

crud_update_reader(tbl, reader_id, reader_data) ==
    IF updates(reader_data, ReaderCols) = {} THEN tbl
    ELSE SqlUpdate(tbl, "reader_id", reader_id, reader_data, updates(reader_data, ReaderCols))

crud_delete_reader(tbl, reader_id) == SqlDelete(tbl, "reader_id", reader_id)

\* the "Parse borrowed_books" block of the reader endpoints
ParseBorrowed(reader) ==
    [reader EXCEPT !.borrowed_books =
        IF json_loads(@).ok THEN json_loads(@).v ELSE << >>]

----------------------------------------------------------------------------
(* Requests the model sends *)

\* ids a request names: those the table has handed out, or 1 when it has none
Ids(t) == 1..Max(seq[t], 1)

\* POST /books bodies, and one body without its title
BookCreateBodies ==
    [title : {JStr(Str0), JStr(StrA)}, author : {JStr(StrX)},
     genre : {JAbsent, JStr(StrG)}, stock : {JAbsent, JInt(5)}]
    \cup {[title |-> JAbsent, author |-> JStr(StrX), genre |-> JAbsent,
           stock |-> JAbsent]}

\* PUT /books bodies: no key, one key, a null, and two keys
BookUpdateBodies ==
    {[title |-> JAbsent, author |-> JAbsent, genre |-> JAbsent, stock |-> JAbsent],
     [title |-> JStr(Str0), author |-> JAbsent, genre |-> JAbsent, stock |-> JAbsent],
     [title |-> JAbsent, author |-> JAbsent, genre |-> JNull, stock |-> JAbsent],
     [title |-> JAbsent, author |-> JStr(StrX), genre |-> JStr(StrG), stock |-> JAbsent],
     [title |-> JStr(StrA), author |-> JAbsent, genre |-> JAbsent, stock |-> JInt(5)]}

StaffCreateBodies ==
    [name : {JStr(Str0), JStr(StrA)}, role : {JStr(StrX)}, contact : {JAbsent}]

StaffUpdateBodies ==
    {[name |-> JAbsent, role |-> JAbsent, contact |-> JAbsent],
     [name |-> JStr(StrA), role |-> JStr(StrX), contact |-> JAbsent],
     [name |-> JStr(Str0), role |-> JAbsent, contact |-> JNull],
     [name |-> JNull, role |-> JAbsent, contact |-> JNull]}

ReaderCreateBodies ==
    [name : {JStr(StrA)}, contact : {JAbsent, JStr(StrC)}]

ReaderUpdateBodies ==
    {[name |-> JAbsent, contact |-> JAbsent],
     [name |-> JStr(StrA), contact |-> JNull],
     [name |-> JAbsent, contact |-> JStr(StrC)],
     [name |-> JNull, contact |-> JNull]}

BookAdvancedBodies ==
    [title : {JStr(StrBlank), JStr(StrA), JStr(StrPadA)},
     author : {JStr(StrX)},
     details : {JObj([genre |-> JStr(StrG), stock |-> JInt(5)]),
                JObj([genre |-> JAbsent, stock |-> JAbsent])}]
    \cup {[title |-> JStr(Str0), author |-> JStr(StrX),
           details |-> JObj([genre |-> JAbsent, stock |-> JAbsent])]}

ReaderAdvancedBodies ==
    [name : {JStr(StrA)},
     details : {JObj([contact |-> JStr(StrC), borrowed_books |-> JList(<<1>>)]),
                JObj([contact |-> JAbsent, borrowed_books |-> JAbsent])}]

\* payloads of POST /validate/book and POST /validate/reader
ValStrings == {JAbsent} \cup {JStr(s) : s \in StringsUpTo(MaxLen)}

ValBookDetails ==
    {JAbsent, JStr(StrG), JObj([genre |-> JStr(StrG), stock |-> JInt(5)]),
     JObj([genre |-> JAbsent, stock |-> JAbsent])}

ValReaderDetails ==
    {JAbsent, JObj([contact |-> JStr(StrC), borrowed_books |-> JList(<<1>>)]),
     JObj([contact |-> JAbsent, borrowed_books |-> JAbsent])}

BookPayloads == [title : ValStrings, author : ValStrings, details : ValBookDetails]

ReaderPayloads == [name : ValStrings, details : ValReaderDetails]

SmallBookPayloads ==
    [title : {JStr(StrA)}, author : {JAbsent, JStr(StrX)},
     details : {JObj([genre |-> JAbsent, stock |-> JAbsent])}]

SmallReaderPayloads ==
    [name : {JStr(StrA)},
     details : {JObj([contact |-> JAbsent, borrowed_books |-> JAbsent])}]

----------------------------------------------------------------------------
(* Responses *)

Request(op, id, body) == [op |-> op, id |-> id, body |-> body]

Ok(body) == [status |-> 200, body |-> body]

\* HTTPException(status_code=404)
NotFound == [status |-> 404, body |-> "not found"]

\* HTTPException(status_code=400)
BadRequest == [status |-> 400, body |-> "Invalid JSON payload"]

\* the framework's answer to a body its request model rejects
Unprocessable == [status |-> 422, body |-> "validation error"]

CanInsert == seq.books + seq.staff + seq.readers < MaxInserts

BookFields(r) == [c \in BookCols |-> r[c]]

\* the request handlers running side by side (worker threads of the server)
Procs == 1..MaxRequests

\* a worker that has taken no request yet
Idle ==
    [pc |-> "idle", op |-> "none", id |-> 0, body |-> JAbsent,
     existing |-> None, status |-> 0, book |-> None]

\* books.txt, readers.txt and staff.txt of the data directory
FileNames == {"books", "readers", "staff"}

\* no line taken out of a text file since it was last converted
NoneRemoved == [line |-> [f \in FileNames |-> 0], count |-> 0]

----------------------------------------------------------------------------
(* State after DatabaseManager() has run init_database on a new file *)

Init ==
    /\ books = {}
    /\ staff = {}
    /\ readers = {}
    /\ seq = [books |-> 0, staff |-> 0, readers |-> 0]
    /\ schema = {"books", "staff", "readers"}
    /\ req = Request("start", 0, JAbsent)
    /\ resp = Ok("start")
    /\ refBooks = [i \in {} |-> 0]
    /\ issued = [books |-> {}, staff |-> {}, readers |-> {}]
    /\ inflight = [p \in Procs |-> Idle]
    /\ wlog = << >>
    /\ txt = [f \in FileNames |-> << >>]
    /\ json = [f \in FileNames |-> None]
    /\ removed = NoneRemoved

----------------------------------------------------------------------------
(* Endpoints.  Each action is one request handled from start to end.       *)

\* GET /
root ==
    /\ req' = Request("root", 0, JAbsent)
    /\ resp' = Ok("Library Management System API")
    /\ UNCHANGED <<books, staff, readers, seq, schema, refBooks>>
    /\ UNCHANGED <<issued, handlers, textfiles>>

\* GET /health
health_check ==
    /\ req' = Request("health_check", 0, JAbsent)
    /\ resp' = Ok("healthy")
    /\ UNCHANGED <<books, staff, readers, seq, schema, refBooks>>
    /\ UNCHANGED <<issued, handlers, textfiles>>

\* GET /books
get_books ==
    /\ req' = Request("get_books", 0, JAbsent)
    /\ resp' = Ok(get_all_books)
    /\ UNCHANGED <<books, staff, readers, seq, schema, refBooks>>
    /\ UNCHANGED <<issued, handlers, textfiles>>

\* GET /books/{book_id}
get_book(book_id) ==
    /\ req' = Request("get_book", book_id, JAbsent)
    /\ LET book == get_book_by_id(books, book_id)
       IN resp' = IF book = None THEN NotFound ELSE Ok(Val(book))
    /\ UNCHANGED <<books, staff, readers, seq, schema, refBooks>>
    /\ UNCHANGED <<issued, handlers, textfiles>>

\* POST /books
create_book(j) ==
    /\ req' = Request("create_book", 0, j)
    /\ LET book_data == BookCreate(j)
       IN IF ~book_data.ok
          THEN /\ resp' = Unprocessable
               /\ UNCHANGED <<books, seq, refBooks, issued>>
          ELSE /\ CanInsert
               /\ LET row == crud_create_book(books, seq.books, book_data)
                      book_id == row.book_id
                      after == books \cup {row}
                      new_book == get_book_by_id(after, book_id)
                  IN /\ books' = after
                     /\ seq' = [seq EXCEPT !.books = book_id]
                     /\ issued' = [issued EXCEPT !.books = @ \cup {book_id}]
                     /\ resp' = Ok([message |-> "Book created successfully",
                                    book |-> new_book])
                     /\ refBooks' = [i \in DOMAIN refBooks \cup {book_id} |->
                                        IF i = book_id
                                        THEN [title |-> j.title.s, author |-> j.author.s,
                                              genre |-> OptField(j.genre, None),
                                              stock |-> OptField(j.stock, Some(1))]
                                        ELSE refBooks[i]]
    /\ UNCHANGED <<staff, readers, schema>>
    /\ UNCHANGED <<handlers, textfiles>>

\* PUT /books/{book_id}
update_book(book_id, j) ==
    /\ req' = Request("update_book", book_id, j)
    /\ LET book_data == BookUpdate(j)
           existing_book == get_book_by_id(books, book_id)
       IN IF ~book_data.ok
          THEN /\ resp' = Unprocessable
               /\ UNCHANGED <<books, refBooks>>
          ELSE IF existing_book = None
          THEN /\ resp' = NotFound
               /\ UNCHANGED <<books, refBooks>>
          ELSE LET after == crud_update_book(books, book_id, book_data)
                   updated_book == get_book_by_id(after, book_id)
               IN /\ books' = after
                  /\ resp' = Ok([message |-> "Book updated successfully",
                                 book |-> updated_book])
                  /\ refBooks' = [refBooks EXCEPT ![book_id] =
                                    [c \in BookCols |->
                                        IF j[c].kind \in {"absent", "null"} THEN @[c]
                                        ELSE IF c \in NotNullCols THEN JVal(j[c])
                                        ELSE Some(JVal(j[c]))]]
    /\ UNCHANGED <<staff, readers, seq, schema>>
    /\ UNCHANGED <<issued, handlers, textfiles>>

\* the DELETE that also takes the id out of the readers' borrowed_books
delete_book_cascade(book_id) ==
    /\ req' = Request("delete_book", book_id, JAbsent)
    /\ LET existing_book == get_book_by_id(books, book_id)
       IN IF existing_book = None
          THEN /\ resp' = NotFound
               /\ UNCHANGED <<books, readers, refBooks>>
          ELSE /\ books' = crud_delete_book(books, book_id)
               /\ readers' = {IF \E i \in DOMAIN ParseBorrowed(r).borrowed_books :
                                     ParseBorrowed(r).borrowed_books[i] = book_id
                              THEN [r EXCEPT !.borrowed_books = <<"[", "]">>]
                              ELSE r : r \in readers}
               /\ resp' = Ok("deleted successfully")
               /\ refBooks' = [i \in DOMAIN refBooks \ {book_id} |-> refBooks[i]]
    /\ UNCHANGED <<staff, seq, schema>>
    /\ UNCHANGED <<issued, handlers, textfiles>>

\* DELETE /books/{book_id}
delete_book(book_id) ==
    /\ req' = Request("delete_book", book_id, JAbsent)
    /\ LET existing_book == get_book_by_id(books, book_id)
       IN IF existing_book = None
          THEN /\ resp' = NotFound
               /\ UNCHANGED <<books, refBooks>>
          ELSE /\ books' = crud_delete_book(books, book_id)
               /\ resp' = Ok("deleted successfully")
               /\ refBooks' = [i \in DOMAIN refBooks \ {book_id} |-> refBooks[i]]
    /\ UNCHANGED <<staff, readers, seq, schema>>
    /\ UNCHANGED <<issued, handlers, textfiles>>

\* GET /staff
get_staff ==
    /\ req' = Request("get_staff", 0, JAbsent)
    /\ resp' = Ok(get_all_staff)
    /\ UNCHANGED <<books, staff, readers, seq, schema, refBooks>>
    /\ UNCHANGED <<issued, handlers, textfiles>>

\* GET /staff/{staff_id}
get_staff_member(staff_id) ==
    /\ req' = Request("get_staff_member", staff_id, JAbsent)
    /\ LET member == get_staff_by_id(staff, staff_id)
       IN resp' = IF member = None THEN NotFound ELSE Ok(Val(member))
    /\ UNCHANGED <<books, staff, readers, seq, schema, refBooks>>
    /\ UNCHANGED <<issued, handlers, textfiles>>

\* POST /staff
create_staff(j) ==
    /\ req' = Request("create_staff", 0, j)
    /\ LET staff_data == StaffCreate(j)
       IN IF ~staff_data.ok
          THEN /\ resp' = Unprocessable
               /\ UNCHANGED <<staff, seq, issued>>
          ELSE /\ CanInsert
               /\ LET row == crud_create_staff(staff, seq.staff, staff_data)
                      staff_id == row.staff_id
                      after == staff \cup {row}
                      new_staff == get_staff_by_id(after, staff_id)
                  IN /\ staff' = after
                     /\ seq' = [seq EXCEPT !.staff = staff_id]
                     /\ issued' = [issued EXCEPT !.staff = @ \cup {staff_id}]
                     /\ resp' = Ok([message |-> "Staff member created successfully",
                                    staff |-> new_staff])
    /\ UNCHANGED <<books, readers, schema, refBooks>>
    /\ UNCHANGED <<handlers, textfiles>>

\* PUT /staff/{staff_id}
update_staff(staff_id, j) ==
    /\ req' = Request("update_staff", staff_id, j)
    /\ LET staff_data == StaffUpdate(j)
           existing_staff == get_staff_by_id(staff, staff_id)
       IN IF ~staff_data.ok
          THEN /\ resp' = Unprocessable
               /\ UNCHANGED staff
          ELSE IF existing_staff = None
          THEN /\ resp' = NotFound
               /\ UNCHANGED staff
          ELSE LET after == crud_update_staff(staff, staff_id, staff_data)
                   updated_staff == get_staff_by_id(after, staff_id)
               IN /\ staff' = after
                  /\ resp' = Ok([message |-> "Staff member updated successfully",
                                 staff |-> updated_staff])
    /\ UNCHANGED <<books, readers, seq, schema, refBooks>>
    /\ UNCHANGED <<issued, handlers, textfiles>>

\* DELETE /staff/{staff_id}
delete_staff(staff_id) ==
    /\ req' = Request("delete_staff", staff_id, JAbsent)
    /\ LET existing_staff == get_staff_by_id(staff, staff_id)
       IN IF existing_staff = None
          THEN /\ resp' = NotFound
               /\ UNCHANGED staff
          ELSE /\ staff' = crud_delete_staff(staff, staff_id)
               /\ resp' = Ok("deleted successfully")
    /\ UNCHANGED <<books, readers, seq, schema, refBooks>>
    /\ UNCHANGED <<issued, handlers, textfiles>>

\* GET /readers
get_readers ==
    /\ req' = Request("get_readers", 0, JAbsent)
    /\ resp' = Ok([i \in DOMAIN get_all_readers |-> ParseBorrowed(get_all_readers[i])])
    /\ UNCHANGED <<books, staff, readers, seq, schema, refBooks>>
    /\ UNCHANGED <<issued, handlers, textfiles>>

\* GET /readers/{reader_id}
get_reader(reader_id) ==
    /\ req' = Request("get_reader", reader_id, JAbsent)
    /\ LET reader == get_reader_by_id(readers, reader_id)
       IN resp' = IF reader = None THEN NotFound ELSE Ok(ParseBorrowed(Val(reader)))
    /\ UNCHANGED <<books, staff, readers, seq, schema, refBooks>>
    /\ UNCHANGED <<issued, handlers, textfiles>>

\* POST /readers
create_reader(j) ==
    /\ req' = Request("create_reader", 0, j)
    /\ LET reader_data == ReaderCreate(j)
       IN IF ~reader_data.ok
          THEN /\ resp' = Unprocessable
               /\ UNCHANGED <<readers, seq, issued>>
          ELSE /\ CanInsert
               /\ LET row == crud_create_reader(readers, seq.readers, reader_data)
                      reader_id == row.reader_id
                      after == readers \cup {row}
                      new_reader == get_reader_by_id(after, reader_id)
                  IN /\ readers' = after
                     /\ seq' = [seq EXCEPT !.readers = reader_id]
                     /\ issued' = [issued EXCEPT !.readers = @ \cup {reader_id}]
                     /\ resp' = Ok([message |-> "Reader created successfully",
                                    reader |-> {ParseBorrowed(r) : r \in new_reader}])
    /\ UNCHANGED <<books, staff, schema, refBooks>>
    /\ UNCHANGED <<handlers, textfiles>>

\* PUT /readers/{reader_id}
update_reader(reader_id, j) ==
    /\ req' = Request("update_reader", reader_id, j)
    /\ LET reader_data == ReaderUpdate(j)
           existing_reader == get_reader_by_id(readers, reader_id)
       IN IF ~reader_data.ok
          THEN /\ resp' = Unprocessable
               /\ UNCHANGED readers
          ELSE IF existing_reader = None
          THEN /\ resp' = NotFound
               /\ UNCHANGED readers
          ELSE LET after == crud_update_reader(readers, reader_id, reader_data)
                   updated_reader == get_reader_by_id(after, reader_id)
               IN /\ readers' = after
                  /\ resp' = Ok([message |-> "Reader updated successfully",
                                 reader |-> {ParseBorrowed(r) : r \in updated_reader}])
    /\ UNCHANGED <<books, staff, seq, schema, refBooks>>
    /\ UNCHANGED <<issued, handlers, textfiles>>

\* DELETE /readers/{reader_id}
delete_reader(reader_id) ==
    /\ req' = Request("delete_reader", reader_id, JAbsent)
    /\ LET existing_reader == get_reader_by_id(readers, reader_id)
       IN IF existing_reader = None
          THEN /\ resp' = NotFound
               /\ UNCHANGED readers
          ELSE /\ readers' = crud_delete_reader(readers, reader_id)
               /\ resp' = Ok("deleted successfully")
    /\ UNCHANGED <<books, staff, seq, schema, refBooks>>
    /\ UNCHANGED <<issued, handlers, textfiles>>

\* BookAdvancedResponse(book_id, title, author, details=BookDetails(genre, stock))
BookAdvancedResponse(book) ==
    [book_id |-> book.book_id, title |-> book.title, author |-> book.author,
     details |-> [genre |-> book.genre, stock |-> book.stock]]

\* ReaderAdvancedResponse(reader_id, name, details=ReaderDetails(contact, borrowed_books))
ReaderAdvancedResponse(reader) ==
    [reader_id |-> reader.reader_id, name |-> reader.name,
     details |-> [contact |-> reader.contact,
                  borrowed_books |-> ParseBorrowed(reader).borrowed_books]]

\* POST /books/advanced
create_book_advanced(j) ==
    /\ req' = Request("create_book_advanced", 0, j)
    /\ LET book_data == BookAdvancedCreate(j)
       IN IF ~book_data.ok
          THEN /\ resp' = Unprocessable
               /\ UNCHANGED <<books, seq, refBooks, issued>>
          ELSE /\ CanInsert
               /\ LET basic_book == [title |-> book_data.title,
                                     author |-> book_data.author,
                                     genre |-> book_data.details.genre,
                                     stock |-> book_data.details.stock]
                      row == crud_create_book(books, seq.books, basic_book)
                      book_id == row.book_id
                      after == books \cup {row}
                      new_book == get_book_by_id(after, book_id)
                  IN /\ books' = after
                     /\ seq' = [seq EXCEPT !.books = book_id]
                     /\ issued' = [issued EXCEPT !.books = @ \cup {book_id}]
                     /\ resp' = Ok(BookAdvancedResponse(Val(new_book)))
                     /\ refBooks' = [i \in DOMAIN refBooks \cup {book_id} |->
                                        IF i = book_id
                                        THEN [title |-> strip(j.title.s),
                                              author |-> strip(j.author.s),
                                              genre |-> OptField(j.details.o.genre, None),
                                              stock |-> OptField(j.details.o.stock, Some(1))]
                                        ELSE refBooks[i]]
    /\ UNCHANGED <<staff, readers, schema>>
    /\ UNCHANGED <<handlers, textfiles>>

\* GET /books/advanced/{book_id}
get_book_advanced(book_id) ==
    /\ req' = Request("get_book_advanced", book_id, JAbsent)
    /\ LET book == get_book_by_id(books, book_id)
       IN resp' = IF book = None THEN NotFound
                  ELSE Ok(BookAdvancedResponse(Val(book)))
    /\ UNCHANGED <<books, staff, readers, seq, schema, refBooks>>
    /\ UNCHANGED <<issued, handlers, textfiles>>

\* the handler storing details.borrowed_books as its JSON text
create_reader_advanced_keeping(j) ==
    /\ req' = Request("create_reader_advanced", 0, j)
    /\ LET reader_data == ReaderAdvancedCreate(j)
       IN IF ~reader_data.ok
          THEN /\ resp' = Unprocessable
               /\ UNCHANGED <<readers, seq, issued>>
          ELSE /\ CanInsert
               /\ LET basic_reader == [name |-> reader_data.name,
                                       contact |-> reader_data.details.contact]
                      row == [crud_create_reader(readers, seq.readers, basic_reader)
                                 EXCEPT !.borrowed_books =
                                    IF reader_data.details.borrowed_books = <<1>>
                                    THEN <<"[", "1", "]">> ELSE <<"[", "]">>]
                      reader_id == row.reader_id
                      after == readers \cup {row}
                      new_reader == get_reader_by_id(after, reader_id)
                  IN /\ readers' = after
                     /\ seq' = [seq EXCEPT !.readers = reader_id]
                     /\ issued' = [issued EXCEPT !.readers = @ \cup {reader_id}]
                     /\ resp' = Ok(ReaderAdvancedResponse(Val(new_reader)))
    /\ UNCHANGED <<books, staff, schema, refBooks>>
    /\ UNCHANGED <<handlers, textfiles>>

\* POST /readers/advanced
create_reader_advanced(j) ==
    /\ req' = Request("create_reader_advanced", 0, j)
    /\ LET reader_data == ReaderAdvancedCreate(j)
       IN IF ~reader_data.ok
          THEN /\ resp' = Unprocessable
               /\ UNCHANGED <<readers, seq, issued>>
          ELSE /\ CanInsert
               /\ LET basic_reader == [name |-> reader_data.name,
                                       contact |-> reader_data.details.contact]
                      row == crud_create_reader(readers, seq.readers, basic_reader)
                      reader_id == row.reader_id
                      after == readers \cup {row}
                      new_reader == get_reader_by_id(after, reader_id)
                  IN /\ readers' = after
                     /\ seq' = [seq EXCEPT !.readers = reader_id]
                     /\ issued' = [issued EXCEPT !.readers = @ \cup {reader_id}]
                     /\ resp' = Ok(ReaderAdvancedResponse(Val(new_reader)))
    /\ UNCHANGED <<books, staff, schema, refBooks>>
    /\ UNCHANGED <<handlers, textfiles>>

\* GET /readers/advanced/{reader_id}
get_reader_advanced(reader_id) ==
    /\ req' = Request("get_reader_advanced", reader_id, JAbsent)
    /\ LET reader == get_reader_by_id(readers, reader_id)
       IN resp' = IF reader = None THEN NotFound
                  ELSE Ok(ReaderAdvancedResponse(Val(reader)))
    /\ UNCHANGED <<books, staff, readers, seq, schema, refBooks>>
    /\ UNCHANGED <<issued, handlers, textfiles>>

\* the endpoint storing the book it found valid
validate_book_json_endpoint_storing(payload) ==
    /\ req' = Request("validate_book", 0, payload)
    /\ LET v == validate_book_json(payload)
       IN IF v.is_valid
          THEN /\ resp' = Ok([valid |-> TRUE, message |-> "JSON payload is valid",
                              data |-> v.result])
               /\ books' = books \cup
                              {crud_create_book(books, seq.books,
                                   [title |-> v.result.title, author |-> v.result.author,
                                    genre |-> v.result.details.genre,
                                    stock |-> v.result.details.stock])}
          ELSE /\ resp' = BadRequest
               /\ UNCHANGED books
    /\ UNCHANGED <<staff, readers, seq, schema, refBooks>>
    /\ UNCHANGED <<issued, handlers, textfiles>>

\* POST /validate/book
validate_book_json_endpoint(payload) ==
    /\ req' = Request("validate_book", 0, payload)
    /\ LET v == validate_book_json(payload)
       IN resp' = IF v.is_valid
                  THEN Ok([valid |-> TRUE, message |-> "JSON payload is valid",
                           data |-> v.result])
                  ELSE BadRequest
    /\ UNCHANGED <<books, staff, readers, seq, schema, refBooks>>
    /\ UNCHANGED <<issued, handlers, textfiles>>

\* POST /validate/reader
validate_reader_json_endpoint(payload) ==
    /\ req' = Request("validate_reader", 0, payload)
    /\ LET v == validate_reader_json(payload)
       IN resp' = IF v.is_valid
                  THEN Ok([valid |-> TRUE, message |-> "JSON payload is valid",
                           data |-> v.result])
                  ELSE BadRequest
    /\ UNCHANGED <<books, staff, readers, seq, schema, refBooks>>
    /\ UNCHANGED <<issued, handlers, textfiles>>

\* DatabaseManager.init_database: CREATE TABLE IF NOT EXISTS, three times
init_database == schema \cup {"books", "staff", "readers"}

\* the endpoint creating the tables anew (DROP TABLE, then CREATE TABLE)
initialize_database_anew ==
    /\ req' = Request("initialize_database", 0, JAbsent)
    /\ schema' = init_database
    /\ books' = {}
    /\ staff' = {}
    /\ readers' = {}
    /\ seq' = [books |-> 0, staff |-> 0, readers |-> 0]
    /\ resp' = Ok("Database initialized successfully")
    /\ refBooks' = [i \in {} |-> 0]
    /\ UNCHANGED <<issued, handlers, textfiles>>

\* POST /init-db
initialize_database ==
    /\ req' = Request("initialize_database", 0, JAbsent)
    /\ schema' = init_database
    /\ resp' = Ok("Database initialized successfully")
    /\ UNCHANGED <<books, staff, readers, seq, refBooks>>
    /\ UNCHANGED <<issued, handlers, textfiles>>

\* clear_database with the DELETE FROM readers left out
clear_database_partial ==
    /\ req' = Request("clear_database", 0, JAbsent)
    /\ books' = {}
    /\ staff' = {}
    /\ resp' = Ok("Database cleared successfully")
    /\ refBooks' = [i \in {} |-> 0]
    /\ UNCHANGED <<readers, seq, schema>>
    /\ UNCHANGED <<issued, handlers, textfiles>>

\* clear_database with DROP TABLE in place of DELETE FROM
clear_database_drop ==
    /\ req' = Request("clear_database", 0, JAbsent)
    /\ books' = {}
    /\ staff' = {}
    /\ readers' = {}
    /\ schema' = {}
    /\ resp' = Ok("Database cleared successfully")
    /\ refBooks' = [i \in {} |-> 0]
    /\ UNCHANGED seq
    /\ UNCHANGED <<issued, handlers, textfiles>>

\* POST /clear-db (DatabaseManager.clear_database: three DELETE FROM, one commit)
clear_database ==
    /\ req' = Request("clear_database", 0, JAbsent)
    /\ books' = {}
    /\ staff' = {}
    /\ readers' = {}
    /\ resp' = Ok("Database cleared successfully")
    /\ refBooks' = [i \in {} |-> 0]
    /\ UNCHANGED <<seq, schema>>
    /\ UNCHANGED <<issued, handlers, textfiles>>

----------------------------------------------------------------------------
(* The service: requests are handled one after the other *)

Next ==
    \/ root
    \/ health_check
    \/ get_books
    \/ \E id \in Ids("books") : get_book(id)
    \/ \E j \in BookCreateBodies : create_book(j)
    \/ \E id \in Ids("books"), j \in BookUpdateBodies : update_book(id, j)
    \/ \E id \in Ids("books") : delete_book(id)
    \/ get_staff
    \/ \E id \in Ids("staff") : get_staff_member(id)
    \/ \E j \in StaffCreateBodies : create_staff(j)
    \/ \E id \in Ids("staff"), j \in StaffUpdateBodies : update_staff(id, j)
    \/ \E id \in Ids("staff") : delete_staff(id)
    \/ get_readers
    \/ \E id \in Ids("readers") : get_reader(id)
    \/ \E j \in ReaderCreateBodies : create_reader(j)
    \/ \E id \in Ids("readers"), j \in ReaderUpdateBodies : update_reader(id, j)
    \/ \E id \in Ids("readers") : delete_reader(id)
    \/ \E j \in BookAdvancedBodies : create_book_advanced(j)
    \/ \E id \in Ids("books") : get_book_advanced(id)
    \/ \E j \in ReaderAdvancedBodies : create_reader_advanced(j)
    \/ \E id \in Ids("readers") : get_reader_advanced(id)
    \/ \E p \in SmallBookPayloads : validate_book_json_endpoint(p)
    \/ \E p \in SmallReaderPayloads : validate_reader_json_endpoint(p)
    \/ initialize_database
    \/ clear_database

Spec == Init /\ [][Next]_vars

\* the validation endpoints alone, over every payload of the bounded sets
NextValidate ==
    \/ \E p \in BookPayloads : validate_book_json_endpoint(p)
    \/ \E p \in ReaderPayloads : validate_reader_json_endpoint(p)

SpecValidate == Init /\ [][NextValidate]_vars

\* DatabaseManager() on a library.db kept from earlier: init_database creates
\* no table that exists and leaves the rows it finds.  The file holds one
\* reader whose borrowed_books text, written by another client of the file,
\* is '[1]'; no book is stored.
InitStored ==
    /\ books = {}
    /\ staff = {}
    /\ readers = {[reader_id |-> 1, name |-> StrA, contact |-> None,
                   borrowed_books |-> <<"[", "1", "]">>]}
    /\ seq = [books |-> 0, staff |-> 0, readers |-> 1]
    /\ schema = {"books", "staff", "readers"}
    /\ req = Request("start", 0, JAbsent)
    /\ resp = Ok("start")
    /\ refBooks = [i \in {} |-> 0]
    /\ issued = [books |-> {}, staff |-> {}, readers |-> {1}]
    /\ inflight = [p \in Procs |-> Idle]
    /\ wlog = << >>
    /\ txt = [f \in FileNames |-> << >>]
    /\ json = [f \in FileNames |-> None]
    /\ removed = NoneRemoved

SpecStored == InitStored /\ [][Next]_vars

----------------------------------------------------------------------------
(* Requests handled side by side.  The endpoints are plain "def" functions, *)
(* which the server runs in worker threads; every execute_query and         *)
(* execute_update opens its own connection and commits, so a handler is a   *)
(* series of statements and the statements of different handlers interleave.*)
(* inflight[p] is the request worker p handles, its local variables and,    *)
(* once pc = "done", its answer; wlog lists the INSERT and UPDATE           *)
(* statements in the order they were committed.                             *)

ConcCreateBodies ==
    {[title |-> JStr(StrX), author |-> JStr(StrX), genre |-> JAbsent,
      stock |-> JAbsent]}

ConcUpdateBodies ==
    {[title |-> JStr(StrA), author |-> JAbsent, genre |-> JAbsent, stock |-> JAbsent],
     [title |-> JAbsent, author |-> JAbsent, genre |-> JStr(StrG), stock |-> JAbsent],
     [title |-> JStr(Str0), author |-> JAbsent, genre |-> JAbsent, stock |-> JInt(5)]}

FaultUpdateBodies ==
    {[title |-> JStr(StrA), author |-> JAbsent, genre |-> JAbsent, stock |-> JAbsent]}

\* a handler that has returned or raised
Answered(op, id, body, status, book) ==
    [pc |-> "done", op |-> op, id |-> id, body |-> body,
     existing |-> None, status |-> status, book |-> book]

\* a handler between two statements
Running(pc, op, id, body, existing) ==
    [pc |-> pc, op |-> op, id |-> id, body |-> body,
     existing |-> existing, status |-> 0, book |-> None]

\* POST /books: book_id = crud.create_book(book_data)
create_book_insert(p, j) ==
    /\ inflight[p].pc = "idle"
    /\ LET book_data == BookCreate(j)
       IN IF ~book_data.ok
          THEN /\ inflight' = [inflight EXCEPT ![p] =
                                  Answered("create_book", 0, j, 422, None)]
               /\ UNCHANGED <<books, seq, issued, wlog>>
          ELSE LET row == crud_create_book(books, seq.books, book_data)
               IN /\ books' = books \cup {row}
                  /\ seq' = [seq EXCEPT !.books = row.book_id]
                  /\ issued' = [issued EXCEPT !.books = @ \cup {row.book_id}]
                  /\ wlog' = Append(wlog, [op |-> "INSERT", id |-> row.book_id,
                                           body |-> j])
                  /\ inflight' = [inflight EXCEPT ![p] =
                                     Running("read", "create_book", row.book_id, j, None)]
    /\ UNCHANGED <<staff, readers, schema, req, resp, refBooks, textfiles>>

\* POST /books: new_book = crud.get_book_by_id(book_id); return
create_book_read(p) ==
    /\ inflight[p].pc = "read"
    /\ LET new_book == get_book_by_id(books, inflight[p].id)
       IN inflight' = [inflight EXCEPT ![p] =
                          Answered(@.op, @.id, @.body, 200, new_book)]
    /\ UNCHANGED <<books, staff, readers, seq, schema, req, resp, refBooks, issued,
                   wlog, textfiles>>

\* PUT /books/{book_id}: existing_book = crud.get_book_by_id(book_id)
update_book_check(p, book_id, j) ==
    /\ inflight[p].pc = "idle"
    /\ LET book_data == BookUpdate(j)
           existing_book == get_book_by_id(books, book_id)
       IN inflight' = [inflight EXCEPT ![p] =
             IF ~book_data.ok THEN Answered("update_book", book_id, j, 422, None)
             ELSE IF existing_book = None
             THEN Answered("update_book", book_id, j, 404, None)
             ELSE Running("update", "update_book", book_id, j, existing_book)]
    /\ UNCHANGED <<books, staff, readers, seq, schema, req, resp, refBooks, issued,
                   wlog, textfiles>>

\* the UPDATE writing back the whole row read by the existence check, with
\* the fields of the body put in
update_book_update_whole_row(p) ==
    /\ inflight[p].pc = "update"
    /\ LET book_id == inflight[p].id
           book_data == BookUpdate(inflight[p].body)
           existing_book == Val(inflight[p].existing)
       IN /\ books' = {IF r.book_id = book_id
                       THEN [c \in DOMAIN r |->
                                IF c \in updates(book_data, BookCols)
                                THEN (IF c \in NotNullCols THEN Val(book_data[c])
                                      ELSE book_data[c])
                                ELSE existing_book[c]]
                       ELSE r : r \in books}
          /\ wlog' = IF updates(book_data, BookCols) = {} THEN wlog
                     ELSE Append(wlog, [op |-> "UPDATE", id |-> book_id,
                                        body |-> inflight[p].body])
    /\ inflight' = [inflight EXCEPT ![p].pc = "reread"]
    /\ UNCHANGED <<staff, readers, seq, schema, req, resp, refBooks, issued,
                   textfiles>>

\* PUT /books/{book_id}: crud.update_book(book_id, book_data)
update_book_update(p) ==
    /\ inflight[p].pc = "update"
    /\ LET book_id == inflight[p].id
           book_data == BookUpdate(inflight[p].body)
       IN /\ books' = crud_update_book(books, book_id, book_data)
          /\ wlog' = IF updates(book_data, BookCols) = {} THEN wlog
                     ELSE Append(wlog, [op |-> "UPDATE", id |-> book_id,
                                        body |-> inflight[p].body])
    /\ inflight' = [inflight EXCEPT ![p].pc = "reread"]
    /\ UNCHANGED <<staff, readers, seq, schema, req, resp, refBooks, issued,
                   textfiles>>

\* PUT /books/{book_id}: updated_book = crud.get_book_by_id(book_id); return
update_book_reread(p) ==
    /\ inflight[p].pc = "reread"
    /\ LET updated_book == get_book_by_id(books, inflight[p].id)
       IN inflight' = [inflight EXCEPT ![p] =
                          Answered(@.op, @.id, @.body, 200, updated_book)]
    /\ UNCHANGED <<books, staff, readers, seq, schema, req, resp, refBooks, issued,
                   wlog, textfiles>>

\* DELETE /books/{book_id}: existing_book = crud.get_book_by_id(book_id)
delete_book_check(p, book_id) ==
    /\ inflight[p].pc = "idle"
    /\ LET existing_book == get_book_by_id(books, book_id)
       IN inflight' = [inflight EXCEPT ![p] =
             IF existing_book = None
             THEN Answered("delete_book", book_id, JAbsent, 404, None)
             ELSE Running("delete", "delete_book", book_id, JAbsent, existing_book)]
    /\ UNCHANGED <<books, staff, readers, seq, schema, req, resp, refBooks, issued,
                   wlog, textfiles>>

\* DELETE /books/{book_id}: crud.delete_book(book_id); return
delete_book_delete(p) ==
    /\ inflight[p].pc = "delete"
    /\ books' = crud_delete_book(books, inflight[p].id)
    /\ inflight' = [inflight EXCEPT ![p] =
                       Answered(@.op, @.id, @.body, 200, None)]
    /\ UNCHANGED <<staff, readers, seq, schema, req, resp, refBooks, issued,
                   wlog, textfiles>>

NextConcurrent ==
    \/ \E p \in Procs, j \in ConcCreateBodies : create_book_insert(p, j)
    \/ \E p \in Procs : create_book_read(p)
    \/ \E p \in Procs, id \in Ids("books"), j \in ConcUpdateBodies :
          update_book_check(p, id, j)
    \/ \E p \in Procs : update_book_update(p)
    \/ \E p \in Procs : update_book_reread(p)
    \/ \E p \in Procs, id \in Ids("books") : delete_book_check(p, id)
    \/ \E p \in Procs : delete_book_delete(p)

SpecConcurrent == Init /\ [][NextConcurrent]_vars

----------------------------------------------------------------------------
(* convert_to_json.py: books.txt, readers.txt and staff.txt are read line   *)
(* by line and written as books.json, readers.json and staff.json.          *)
(* txt[f] is the text file, a sequence of lines that each end in "\n";      *)
(* json[f] is the list last written to the JSON file, None before the       *)
(* first conversion.  The text files are written by hand: removed records   *)
(* the line an editor took out of a file since its last conversion.         *)

Newline == <<"\n">>

\* the lines a text file is made of: a blank line, a line of one part (it
\* ends with a comma and a blank), a line of two parts and a line of three
\* parts that begins with a blank
Lines ==
    {<<" ">> \o Newline,
     <<"a", ",", " ">> \o Newline,
     <<"a", ",", " ", "b">> \o Newline,
     <<" ", "b", ",", " ", "a", ",", " ", "c">> \o Newline}

TextFiles == UNION {[1..n -> Lines] : n \in 0..MaxLines}

\* where the separator ', ' starts in s
SeparatorAt(s) == {i \in 1..(Len(s) - 1) : s[i] = "," /\ s[i + 1] = " "}

\* str.split(',')
RECURSIVE split_comma(_)
split_comma(s) ==
    IF \A i \in 1..Len(s) : s[i] # "," THEN <<s>>
    ELSE LET i == CHOOSE k \in 1..Len(s) :
                     s[k] = "," /\ \A m \in 1..(k - 1) : s[m] # ","
         IN <<SubSeq(s, 1, i - 1)>> \o split_comma(SubSeq(s, i + 1, Len(s)))

\* str.split(', ')
RECURSIVE split(_)
split(s) ==
    IF SeparatorAt(s) = {} THEN <<s>>
    ELSE LET i == CHOOSE k \in SeparatorAt(s) : \A m \in SeparatorAt(s) : k <= m
         IN <<SubSeq(s, 1, i - 1)>> \o split(SubSeq(s, i + 2, Len(s)))

\* "if line.strip():" and "if len(parts) >= 2:"
HasRecord(line) == ~StrFalsy(strip(line)) /\ Len(split(strip(line))) >= 2

\* the loop numbering the records it appends 1, 2, 3, ...
RECURSIVE read_books_counted(_, _)
read_books_counted(f, line_num) ==
    IF f = << >> THEN << >>
    ELSE IF HasRecord(Head(f))
    THEN <<[id |-> line_num, title |-> split(strip(Head(f)))[1],
            author |-> split(strip(Head(f)))[2], isbn |-> Str0,
            published_year |-> None, genre |-> Str0, available |-> TRUE]>>
         \o read_books_counted(Tail(f), line_num + 1)
    ELSE read_books_counted(Tail(f), line_num)

\* convert_books_to_json, the loop "for line_num, line in enumerate(f, 1)"
\* from line line_num on
RECURSIVE read_books(_, _)
read_books(f, line_num) ==
    IF line_num > Len(f) THEN << >>
    ELSE LET line == f[line_num]
             parts == split(strip(line))
         IN (IF HasRecord(line)
             THEN <<[id |-> line_num, title |-> parts[1], author |-> parts[2],
                     isbn |-> Str0, published_year |-> None, genre |-> Str0,
                     available |-> TRUE]>>
             ELSE << >>)
            \o read_books(f, line_num + 1)

\* convert_readers_to_json, the same loop
RECURSIVE read_readers(_, _)
read_readers(f, line_num) ==
    IF line_num > Len(f) THEN << >>
    ELSE LET line == f[line_num]
             parts == split(strip(line))
         IN (IF HasRecord(line)
             THEN <<[id |-> line_num, name |-> parts[1], membership_id |-> parts[2],
                     email |-> Str0, phone |-> Str0,
                     membership_type |-> "Standard", join_date |-> "2024-01-01",
                     books_borrowed |-> << >>]>>
             ELSE << >>)
            \o read_readers(f, line_num + 1)

\* convert_staff_to_json, the same loop
RECURSIVE read_staff(_, _)
read_staff(f, line_num) ==
    IF line_num > Len(f) THEN << >>
    ELSE LET line == f[line_num]
             parts == split(strip(line))
         IN (IF HasRecord(line)
             THEN <<[id |-> line_num, name |-> parts[1], position |-> parts[2],
                     email |-> Str0, phone |-> Str0, department |-> Str0,
                     salary |-> 0, hire_date |-> "2024-01-01",
                     is_active |-> TRUE]>>
             ELSE << >>)
            \o read_staff(f, line_num + 1)

\* the state every action of the text files leaves alone
service == <<books, staff, readers, seq, schema, req, resp, refBooks, issued,
             handlers>>

convert_books_to_json ==
    /\ json' = [json EXCEPT !.books = Some(read_books(txt.books, 1))]
    /\ removed' = [removed EXCEPT !.line.books = 0]
    /\ UNCHANGED <<txt, service>>

convert_readers_to_json ==
    /\ json' = [json EXCEPT !.readers = Some(read_readers(txt.readers, 1))]
    /\ removed' = [removed EXCEPT !.line.readers = 0]
    /\ UNCHANGED <<txt, service>>

convert_staff_to_json ==
    /\ json' = [json EXCEPT !.staff = Some(read_staff(txt.staff, 1))]
    /\ removed' = [removed EXCEPT !.line.staff = 0]
    /\ UNCHANGED <<txt, service>>

\* an editor takes line n out of a text file that has been converted
remove_line(f, n) ==
    /\ removed.count < MaxRemovals
    /\ json[f] # None /\ removed.line[f] = 0
    /\ n \in 1..Len(txt[f])
    /\ txt' = [txt EXCEPT ![f] = SubSeq(@, 1, n - 1) \o SubSeq(@, n + 1, Len(@))]
    /\ removed' = [line |-> [removed.line EXCEPT ![f] = n],
                   count |-> removed.count + 1]
    /\ UNCHANGED <<json, service>>

\* the data directory holds three text files of up to MaxLines lines
InitFiles ==
    /\ books = {}
    /\ staff = {}
    /\ readers = {}
    /\ seq = [books |-> 0, staff |-> 0, readers |-> 0]
    /\ schema = {"books", "staff", "readers"}
    /\ req = Request("start", 0, JAbsent)
    /\ resp = Ok("start")
    /\ refBooks = [i \in {} |-> 0]
    /\ issued = [books |-> {}, staff |-> {}, readers |-> {}]
    /\ inflight = [p \in Procs |-> Idle]
    /\ wlog = << >>
    /\ \E t \in TextFiles : txt = [f \in FileNames |-> t]
    /\ json = [f \in FileNames |-> None]
    /\ removed = NoneRemoved

NextFiles ==
    \/ convert_books_to_json
    \/ convert_readers_to_json
    \/ convert_staff_to_json
    \/ \E f \in FileNames, n \in 1..MaxLines : remove_line(f, n)

SpecFiles == InitFiles /\ [][NextFiles]_vars

----------------------------------------------------------------------------
(* Statements that raise.  cursor.execute or conn.commit can raise          *)
(* sqlite3.Error (database locked, disk full, file unreadable); SQLite      *)
(* undoes the statement, execute_query and execute_update have no "try",    *)
(* nor has LibraryCRUD or an endpoint around its crud calls, so the         *)
(* exception leaves the handler and the server answers 500.  req names the  *)
(* statement that raised last and the worker that ran it.                   *)

\* the answer to a handler that raised
Raised(w) == Answered(w.op, w.id, w.body, 500, None)

\* POST /books: the INSERT raises
create_book_insert_raises(p, j) ==
    /\ inflight[p].pc = "idle"
    /\ BookCreate(j).ok
    /\ inflight' = [inflight EXCEPT ![p] =
                       Raised([op |-> "create_book", id |-> 0, body |-> j])]
    /\ req' = Request("insert", p, JAbsent)
    /\ UNCHANGED <<books, staff, readers, seq, schema, resp, refBooks, issued,
                   wlog, textfiles>>

\* PUT /books/{book_id}: the SELECT of the existence check raises
update_book_check_raises(p, book_id, j) ==
    /\ inflight[p].pc = "idle"
    /\ BookUpdate(j).ok
    /\ inflight' = [inflight EXCEPT ![p] =
                       Raised([op |-> "update_book", id |-> book_id, body |-> j])]
    /\ req' = Request("check", p, JAbsent)
    /\ UNCHANGED <<books, staff, readers, seq, schema, resp, refBooks, issued,
                   wlog, textfiles>>

\* DELETE /books/{book_id}: the SELECT of the existence check raises
delete_book_check_raises(p, book_id) ==
    /\ inflight[p].pc = "idle"
    /\ inflight' = [inflight EXCEPT ![p] =
                       Raised([op |-> "delete_book", id |-> book_id,
                               body |-> JAbsent])]
    /\ req' = Request("check", p, JAbsent)
    /\ UNCHANGED <<books, staff, readers, seq, schema, resp, refBooks, issued,
                   wlog, textfiles>>

\* a DatabaseManager that catches the exception and returns nothing: the
\* handler goes on with its next line
execute_raises_caught(p) ==
    /\ inflight[p].pc \in {"read", "update", "reread", "delete"}
    /\ inflight[p].pc = "update"
         => updates(BookUpdate(inflight[p].body), BookCols) # {}
    /\ inflight' = [inflight EXCEPT ![p] =
                       IF @.pc = "update" THEN [@ EXCEPT !.pc = "reread"]
                       ELSE Answered(@.op, @.id, @.body, 200, None)]
    /\ req' = Request(inflight[p].pc, p, JAbsent)
    /\ UNCHANGED <<books, staff, readers, seq, schema, resp, refBooks, issued,
                   wlog, textfiles>>

\* the next statement of a running handler raises: the re-read of POST, the
\* UPDATE or the re-read of PUT, the DELETE of DELETE
execute_raises(p) ==
    /\ inflight[p].pc \in {"read", "update", "reread", "delete"}
    /\ inflight[p].pc = "update"
         => updates(BookUpdate(inflight[p].body), BookCols) # {}
    /\ inflight' = [inflight EXCEPT ![p] = Raised(@)]
    /\ req' = Request(inflight[p].pc, p, JAbsent)
    /\ UNCHANGED <<books, staff, readers, seq, schema, resp, refBooks, issued,
                   wlog, textfiles>>

NextFaults ==
    \/ \E p \in Procs, j \in ConcCreateBodies : create_book_insert(p, j)
    \/ \E p \in Procs, j \in ConcCreateBodies : create_book_insert_raises(p, j)
    \/ \E p \in Procs : create_book_read(p)
    \/ \E p \in Procs, id \in Ids("books"), j \in FaultUpdateBodies :
          update_book_check(p, id, j)
    \/ \E p \in Procs, id \in Ids("books"), j \in FaultUpdateBodies :
          update_book_check_raises(p, id, j)
    \/ \E p \in Procs : update_book_update(p)
    \/ \E p \in Procs : update_book_reread(p)
    \/ \E p \in Procs, id \in Ids("books") : delete_book_check(p, id)
    \/ \E p \in Procs, id \in Ids("books") : delete_book_check_raises(p, id)
    \/ \E p \in Procs : delete_book_delete(p)
    \/ \E p \in Procs : execute_raises(p)

SpecFaults == Init /\ [][NextFaults]_vars

----------------------------------------------------------------------------
(* The advanced book endpoints on their own: every book of the store was   *)
(* created through POST /books/advanced, with titles of up to MaxLen       *)
(* characters, and PUT /books/{book_id} gives a stored book a new title.   *)

AdvancedTitleBodies ==
    [title : {JStr(s) : s \in StringsUpTo(MaxLen)},
     author : {JStr(<<" ", "x", " ">>)},
     details : {JObj([genre |-> JAbsent, stock |-> JAbsent])}]

RetitleBodies ==
    [title : {JStr(Str0), JStr(StrPadA)}, author : {JAbsent}, genre : {JAbsent},
     stock : {JAbsent}]

NextAdvanced ==
    \/ \E j \in AdvancedTitleBodies : create_book_advanced(j)
    \/ \E book_id \in Ids("books") : get_book_advanced(book_id)
    \/ \E payload \in AdvancedTitleBodies : validate_book_json_endpoint(payload)
    \/ \E book_id \in Ids("books"), j \in RetitleBodies : update_book(book_id, j)

SpecAdvanced == Init /\ [][NextAdvanced]_vars

----------------------------------------------------------------------------
(* Properties *)

\* the row of a table with the given id
Row(tbl, key, id) == CHOOSE r \in tbl : r[key] = id

HasRow(tbl, key, id) == \E r \in tbl : r[key] = id

\* what a JSON body asks a column to hold
Stored(c, j) == IF c \in NotNullCols THEN JVal(j) ELSE Some(JVal(j))

\* the four fields a POST /books body submits (an omitted genre is null,
\* an omitted stock is 1)
Submitted(j) ==
    [title |-> j.title.s, author |-> j.author.s,
     genre |-> IF j.genre.kind = "str" THEN {j.genre.s} ELSE {},
     stock |-> IF j.stock.kind = "int" THEN {j.stock.n}
               ELSE IF j.stock.kind = "null" THEN {} ELSE {1}]

\* C1: an accepted POST /books answers with a book whose title, author, genre
\* and stock are the submitted ones, and a GET /books/{book_id} of the returned
\* id that follows answers 200 with the same four fields.
C1_CreateReadRoundTrip ==
    [][/\ (req'.op = "create_book" /\ resp'.status = 200)
            => /\ resp'.body.book # None
               /\ BookFields(Val(resp'.body.book)) = Submitted(req'.body)
       /\ (/\ req.op = "create_book" /\ resp.status = 200
           /\ req'.op = "get_book" /\ req'.id = Val(resp.body.book).book_id)
            => /\ resp'.status = 200
               /\ BookFields(resp'.body) = Submitted(req.body)]_vars

C1_Witness ==
    /\ req.op = "create_book" /\ resp.status = 200
    /\ req.body.title = JStr(StrA) /\ req.body.genre = JStr(StrG)
    /\ req.body.stock = JInt(5)
    /\ Cardinality(books) = 2

\* a PUT that answered 200 changed the columns the body gives a value for,
\* and nothing else of the table
UpdatedOnly(op, key, cols, before, after) ==
    (req'.op = op /\ resp'.status = 200)
      => /\ HasRow(before, key, req'.id)
         /\ Cardinality({r \in after : r[key] = req'.id}) = 1
         /\ LET old == Row(before, key, req'.id)
                new == Row(after, key, req'.id)
            IN /\ DOMAIN new = DOMAIN old
               /\ \A c \in cols :
                     IF req'.body[c].kind \in {"absent", "null"}
                     THEN new[c] = old[c]
                     ELSE new[c] = Stored(c, req'.body[c])
               /\ \A c \in DOMAIN old \ cols : new[c] = old[c]
         /\ {r \in after : r[key] # req'.id} = {r \in before : r[key] # req'.id}

\* C2: after a PUT on an existing book, staff member or reader, every field the
\* body gives a value for holds that value, every other field keeps its previous
\* value, the id is unchanged and every other record of the table is unchanged
\* (a key sent as null reaches the handler as None, like an omitted key).
C2_UpdateOnlySpecified ==
    [][/\ UpdatedOnly("update_book", "book_id", BookCols, books, books')
       /\ UpdatedOnly("update_staff", "staff_id", StaffCols, staff, staff')
       /\ UpdatedOnly("update_reader", "reader_id", ReaderCols, readers, readers')]_vars

C2_Witness ==
    /\ req.op = "update_book" /\ resp.status = 200
    /\ req.body.title = JStr(Str0) /\ req.body.stock = JAbsent
    /\ Cardinality(books) = 2
    /\ Row(books, "book_id", req.id).title = Str0
    /\ Row(books, "book_id", req.id).stock = {5}

\* a DELETE that answered 200 removed the row and nothing else; a GET of the id
\* that follows answers 404 and a list that follows does not show the id
Deleted(op, getop, listop, key, before, after) ==
    /\ (req'.op = op /\ resp'.status = 200)
         => /\ HasRow(before, key, req'.id)
            /\ ~HasRow(after, key, req'.id)
            /\ {r \in after : r[key] # req'.id} = {r \in before : r[key] # req'.id}
    /\ (req.op = op /\ resp.status = 200 /\ req'.op = getop /\ req'.id = req.id)
         => resp'.status = 404
    /\ (req.op = op /\ resp.status = 200 /\ req'.op = listop)
         => /\ resp'.status = 200
            /\ \A i \in DOMAIN resp'.body : resp'.body[i][key] # req.id
            /\ Len(resp'.body) = Cardinality(after)

\* C3: after a DELETE of an existing book, staff member or reader answers 200,
\* a GET of that id answers 404, the list endpoint does not show the record and
\* all other records of the table are unchanged.
C3_DeleteRemoves ==
    [][/\ Deleted("delete_book", "get_book", "get_books", "book_id", books, books')
       /\ Deleted("delete_staff", "get_staff_member", "get_staff", "staff_id",
                  staff, staff')
       /\ Deleted("delete_reader", "get_reader", "get_readers", "reader_id",
                  readers, readers')]_vars

C3_Witness ==
    /\ req.op = "delete_book" /\ resp.status = 200
    /\ Cardinality(books) = 1 /\ seq.books = 2
    /\ ~HasRow(books, "book_id", req.id)

\* the table and key a by-id request addresses
TableOf(op) ==
    IF op \in {"get_book", "update_book", "delete_book", "get_book_advanced"}
    THEN [rows |-> books, key |-> "book_id"]
    ELSE IF op \in {"get_staff_member", "update_staff", "delete_staff"}
    THEN [rows |-> staff, key |-> "staff_id"]
    ELSE [rows |-> readers, key |-> "reader_id"]

ByIdOps ==
    {"get_book", "update_book", "delete_book", "get_book_advanced",
     "get_staff_member", "update_staff", "delete_staff",
     "get_reader", "update_reader", "delete_reader", "get_reader_advanced"}

\* C4: GET, PUT and DELETE of a book, staff member or reader (and GET of the
\* advanced variants) with an id that no stored record has answer 404 and leave
\* the three tables unchanged.
C4_MissingIdIs404 ==
    [][(req'.op \in ByIdOps
        /\ ~HasRow(TableOf(req'.op).rows, TableOf(req'.op).key, req'.id))
         => (resp'.status = 404 /\ tables' = tables)]_vars

C4_Witness ==
    /\ req.op = "update_reader" /\ resp.status = 404
    /\ req.body.name = JStr(StrA)
    /\ seq.readers = 1 /\ readers = {} /\ books # {}

\* C5: after clear_database, whatever requests came before, GET /books,
\* GET /staff and GET /readers each answer 200 with an empty list.
C5_ListAfterClearEmpty ==
    [][/\ req'.op = "clear_database"
            => (books' = {} /\ staff' = {} /\ readers' = {})
       /\ (req.op = "clear_database"
           /\ req'.op \in {"get_books", "get_staff", "get_readers"})
            => (resp'.status = 200 /\ resp'.body = << >>)]_vars

C5_Witness ==
    /\ req.op = "clear_database" /\ resp.status = 200
    /\ seq.books >= 1 /\ seq.readers >= 1

\* C6: after any history of create, update, delete and clear requests the list
\* GET /books returns has exactly one entry per book created and not since
\* deleted or cleared, each with its id and the fields most recently written.
C6_ListIsReferenceMap ==
    LET list == get_all_books
    IN /\ Len(list) = Cardinality(DOMAIN refBooks)
       /\ \A i \in DOMAIN list :
             /\ list[i].book_id \in DOMAIN refBooks
             /\ BookFields(list[i]) = refBooks[list[i].book_id]
       /\ \A i, k \in DOMAIN list : i # k => list[i].book_id # list[k].book_id
       /\ req.op = "get_books" => (resp.status = 200 /\ resp.body = list)

C6_Witness ==
    /\ req.op = "get_books" /\ Len(resp.body) = 1 /\ seq.books = 2
    /\ resp.body[1].book_id = 2
    /\ resp.body[1].title = StrA /\ resp.body[1].stock = {5}

\* a required string field of a create body that is the empty string
EmptyRequired(op, j) ==
    \/ op \in {"create_book", "create_book_advanced"}
         /\ (j.title = JStr(Str0) \/ j.author = JStr(Str0))
    \/ op = "create_staff" /\ (j.name = JStr(Str0) \/ j.role = JStr(Str0))
    \/ op \in {"create_reader", "create_reader_advanced"} /\ j.name = JStr(Str0)

\* C7: a create request (POST /books, /staff, /readers, /books/advanced,
\* /readers/advanced) whose required string field is the empty string is
\* answered with status 400 and stores no record.
C7_EmptyRequiredIs400 ==
    [][EmptyRequired(req'.op, req'.body)
         => (resp'.status = 400 /\ tables' = tables)]_vars

\* a string with a character that is not whitespace
NonBlank(j) == j.kind = "str" /\ \E i \in DOMAIN j.s : j.s[i] # " "

\* C8: POST /validate/book answers 200 with valid = true when the payload has
\* a title and an author that are non-empty after stripping whitespace and a
\* details object, and answers 400 for every other payload.
C8_ValidateBook ==
    req.op = "validate_book"
      => IF NonBlank(req.body.title) /\ NonBlank(req.body.author)
            /\ req.body.details.kind = "obj"
         THEN resp.status = 200 /\ resp.body.valid = TRUE
         ELSE resp.status = 400

C8_Witness ==
    /\ req.op = "validate_book" /\ resp.status = 400
    /\ req.body.title = JStr(StrBlank) /\ req.body.author = JStr(StrA)
    /\ req.body.details.kind = "obj"

\* C9: POST /validate/reader answers 400 for every payload whose name is
\* missing or empty or whose details object is missing, and 200 with
\* valid = true otherwise.
C9_ValidateReader ==
    req.op = "validate_reader"
      => IF \/ req.body.name.kind # "str"
            \/ req.body.name = JStr(Str0)
            \/ req.body.details.kind # "obj"
         THEN resp.status = 400
         ELSE resp.status = 200 /\ resp.body.valid = TRUE

\* what POST /books/advanced is sent: title, author, details.genre and
\* details.stock as they stand in the body (an omitted genre is null, an
\* omitted stock is 1)
SubmittedAdvanced(j) ==
    [title |-> j.title.s, author |-> j.author.s,
     details |-> [genre |-> IF j.details.o.genre.kind = "str"
                            THEN {j.details.o.genre.s} ELSE {},
                  stock |-> IF j.details.o.stock.kind = "int"
                            THEN {j.details.o.stock.n}
                            ELSE IF j.details.o.stock.kind = "null" THEN {} ELSE {1}]]

\* the same with title and author stripped of leading and trailing whitespace
\* (a string is stripped by dropping its first and last characters while they
\* are blanks)
RECURSIVE Trimmed(_)
Trimmed(s) ==
    IF Len(s) > 0 /\ s[1] = " " THEN Trimmed(SubSeq(s, 2, Len(s)))
    ELSE IF Len(s) > 0 /\ s[Len(s)] = " " THEN Trimmed(SubSeq(s, 1, Len(s) - 1))
    ELSE s

SubmittedAdvancedTrimmed(j) ==
    [SubmittedAdvanced(j) EXCEPT !.title = Trimmed(@), !.author = Trimmed(@)]

AdvancedFields(b) == [title |-> b.title, author |-> b.author, details |-> b.details]

\* the round trip of POST /books/advanced and GET /books/advanced/{book_id}
\* against what the response is expected to carry
AdvancedRoundTrip(Expected(_)) ==
    /\ (req'.op = "create_book_advanced" /\ resp'.status = 200)
         => AdvancedFields(resp'.body) = Expected(req'.body)
    /\ (/\ req.op = "create_book_advanced" /\ resp.status = 200
        /\ req'.op = "get_book_advanced" /\ req'.id = resp.body.book_id)
         => /\ resp'.status = 200
            /\ AdvancedFields(resp'.body) = Expected(req.body)

\* C10 as stated: for every accepted POST /books/advanced payload the response
\* and a following GET /books/advanced/{book_id} return the submitted title
\* and author and the submitted details.genre and details.stock.
C10_AdvancedRoundTrip_Original == [][AdvancedRoundTrip(SubmittedAdvanced)]_vars

\* C10 amended: the response and the following GET return the submitted title
\* and author with leading and trailing whitespace removed, and the submitted
\* details.genre and details.stock.
C10_AdvancedRoundTrip == [][AdvancedRoundTrip(SubmittedAdvancedTrimmed)]_vars

C10_Witness ==
    /\ req.op = "create_book_advanced" /\ resp.status = 200
    /\ req.body.title = JStr(StrPadA) /\ resp.body.title = StrA
    /\ req.body.details.o.stock = JInt(5) /\ resp.body.details.stock = {5}

\* what POST /readers/advanced is sent: name, details.contact and
\* details.borrowed_books as they stand in the body (an omitted contact is
\* null, an omitted borrowed_books is the empty list)
SubmittedReaderAdvanced(j) ==
    [name |-> j.name.s,
     details |-> [contact |-> IF j.details.o.contact.kind = "str"
                              THEN {j.details.o.contact.s} ELSE {},
                  borrowed_books |-> IF j.details.o.borrowed_books.kind = "list"
                                     THEN j.details.o.borrowed_books.l ELSE << >>]]

ReaderAdvancedFields(b) == [name |-> b.name, details |-> b.details]

\* C11: for every accepted POST /readers/advanced payload the response and a
\* following GET /readers/advanced/{reader_id} return the submitted name,
\* details.contact and details.borrowed_books.
C11_ReaderAdvancedRoundTrip ==
    [][/\ (req'.op = "create_reader_advanced" /\ resp'.status = 200)
            => ReaderAdvancedFields(resp'.body) = SubmittedReaderAdvanced(req'.body)
       /\ (/\ req.op = "create_reader_advanced" /\ resp.status = 200
           /\ req'.op = "get_reader_advanced" /\ req'.id = resp.body.reader_id)
            => /\ resp'.status = 200
               /\ ReaderAdvancedFields(resp'.body)
                    = SubmittedReaderAdvanced(req.body)]_vars

\* a field a PUT body gives a value for
Specified(j, c) == j[c].kind \notin {"absent", "null"}

\* C12: in every interleaving of requests handled side by side, a PUT
\* /books/{id} that answers 200 returns a book that is not null and whose
\* specified fields hold the values sent in that request.
C12_ConcurrentPutReturnsSent ==
    \A p \in Procs :
       (inflight[p].op = "update_book" /\ inflight[p].status = 200)
         => /\ inflight[p].book # None
            /\ \A c \in BookCols :
                  Specified(inflight[p].body, c)
                    => Val(inflight[p].book)[c] = Stored(c, inflight[p].body[c])

\* C17: for any id and any interleaving of requests handled side by side, at
\* most one DELETE /books/{id} answers 200 (every other one answers 404).
C17_OneDeleteSucceeds ==
    \A p, q \in Procs :
       (/\ p # q
        /\ inflight[p].op = "delete_book" /\ inflight[q].op = "delete_book"
        /\ inflight[p].id = inflight[q].id
        /\ inflight[p].status = 200)
         => inflight[q].status \in {0, 404}

\* the committed statements that wrote column c of the row with the given id
WritesOf(id, c) ==
    {i \in DOMAIN wlog :
        /\ wlog[i].id = id
        /\ (wlog[i].op = "INSERT" \/ Specified(wlog[i].body, c))}

\* the value the last of them wrote
LastWritten(id, c) ==
    LET i == CHOOSE k \in WritesOf(id, c) : \A m \in WritesOf(id, c) : m <= k
    IN IF wlog[i].op = "INSERT" THEN Submitted(wlog[i].body)[c]
       ELSE Stored(c, wlog[i].body[c])

\* C18: when PUT requests on the same record run side by side and the record
\* is not deleted, each of its fields holds the value written by the last
\* committed UPDATE that specified the field (the INSERT's value when none
\* did), so a field only one request specifies keeps that request's value.
C18_PerFieldLastWriterWins ==
    \A r \in books : \A c \in BookCols :
       /\ WritesOf(r.book_id, c) # {}
       /\ r[c] = LastWritten(r.book_id, c)

C18_Witness ==
    \E p, q \in Procs :
       /\ inflight[p].op = "update_book" /\ inflight[p].pc = "reread"
       /\ inflight[q].op = "update_book" /\ inflight[q].pc = "reread"
       /\ inflight[p].id = inflight[q].id
       /\ inflight[p].body.title = JStr(StrA) /\ inflight[p].body.genre = JAbsent
       /\ inflight[q].body.genre = JStr(StrG) /\ inflight[q].body.title = JAbsent
       /\ \E r \in books : r.book_id = inflight[p].id /\ r.title = StrA /\ r.genre = {StrG}

\* the first and the second part of a converted record
FirstPart(f, r) == IF f = "books" THEN r.title ELSE r.name

SecondPart(f, r) ==
    IF f = "books" THEN r.author
    ELSE IF f = "readers" THEN r.membership_id ELSE r.position

\* every record's id is the number of a line of the text file, and that line,
\* without the blanks around it, begins with the record's two parts
IdsAreLineNumbers(f, lines, recs) ==
    \A k \in DOMAIN recs :
       /\ recs[k].id \in 1..Len(lines)
       /\ LET text == strip(lines[recs[k].id])
              head == FirstPart(f, recs[k]) \o <<",", " ">> \o SecondPart(f, recs[k])
          IN /\ Len(text) >= Len(head)
             /\ SubSeq(text, 1, Len(head)) = head

\* the records without the one of line n, those of later lines with an id
\* one lower
Renumbered(recs, n) ==
    LET kept == SelectSeq(recs, LAMBDA r : r.id # n)
    IN [k \in DOMAIN kept |->
           IF kept[k].id > n THEN [kept[k] EXCEPT !.id = @ - 1] ELSE kept[k]]

\* C13: in convert_books_to_json, convert_readers_to_json and
\* convert_staff_to_json a record's id is the 1-based number of its line in
\* the text file, so converting again after a line was removed gives the
\* records of the lines before it the same id and every record of a later
\* line an id one lower.
C13_LineNumberIds ==
    [][\A f \in FileNames :
          /\ (json'[f] # None /\ removed'.line[f] = 0)
               => IdsAreLineNumbers(f, txt'[f], Val(json'[f]))
          /\ (removed.line[f] > 0 /\ removed'.line[f] = 0)
               => json'[f] = Some(Renumbered(Val(json[f]), removed.line[f]))]_vars

C13_Witness ==
    /\ removed.count = 1 /\ removed.line.books = 0
    /\ txt.readers = <<<<" ">> \o Newline, <<"a", ",", " ", "b">> \o Newline>>
    /\ txt.books = <<<<"a", ",", " ", "b">> \o Newline>>
    /\ json.readers # None /\ Len(Val(json.readers)) = 1
    /\ Val(json.readers)[1].id = 2
    /\ json.books # None /\ Len(Val(json.books)) = 1
    /\ Val(json.books)[1].id = 1 /\ Val(json.books)[1].author = <<"b">>

\* the book ids a reader record lists as borrowed
Borrowed(r) ==
    {ParseBorrowed(r).borrowed_books[i] : i \in DOMAIN ParseBorrowed(r).borrowed_books}

\* C14: DELETE /books/{id} on an existing book answers 200 and removes the
\* book whether or not a reader's borrowed_books contains the id, and leaves
\* every reader record, its borrowed_books included, unchanged.
C14_DeleteBookLeavesReaders ==
    [][(req'.op = "delete_book" /\ HasRow(books, "book_id", req'.id))
         => /\ resp'.status = 200
            /\ ~HasRow(books', "book_id", req'.id)
            /\ readers' = readers]_vars

C14_Witness ==
    /\ req.op = "delete_book" /\ resp.status = 200
    /\ \E r \in readers : req.id \in Borrowed(r)
    /\ books = {}

\* C15: once DatabaseManager is constructed the tables books, staff and
\* readers exist in every reachable state, after clear_database too, which
\* removes rows and never a table.
C15_SchemaInvariant == {"books", "staff", "readers"} \subseteq schema

C15_Witness ==
    /\ req.op = "clear_database" /\ resp.status = 200
    /\ seq.books >= 1 /\ seq.staff >= 1 /\ books = {} /\ staff = {}
    /\ schema = {"books", "staff", "readers"}

\* the table a create request inserts into
CreatedIn(op) ==
    IF op \in {"create_book", "create_book_advanced"} THEN "books"
    ELSE IF op = "create_staff" THEN "staff" ELSE "readers"

CreateOps ==
    {"create_book", "create_book_advanced", "create_staff", "create_reader",
     "create_reader_advanced"}

\* the id a create request answered with
ReturnedId(op, body) ==
    IF op = "create_book" THEN Val(body.book).book_id
    ELSE IF op = "create_book_advanced" THEN body.book_id
    ELSE IF op = "create_staff" THEN Val(body.staff).staff_id
    ELSE IF op = "create_reader" THEN Val(body.reader).reader_id
    ELSE body.reader_id

\* C16: every id a create returns is greater than every id assigned in that
\* table before, the ids of rows since deleted and of rows removed by
\* clear_database included; so no two records that ever existed share an id.
C16_IdsNeverReused ==
    [][(req'.op \in CreateOps /\ resp'.status = 200)
         => /\ \A i \in issued[CreatedIn(req'.op)] :
                  ReturnedId(req'.op, resp'.body) > i
            /\ issued'[CreatedIn(req'.op)]
                 = issued[CreatedIn(req'.op)] \cup {ReturnedId(req'.op, resp'.body)}]_vars

C16_Witness ==
    /\ req.op = "create_book" /\ resp.status = 200
    /\ ReturnedId(req.op, resp.body) = 2
    /\ issued.books = {1, 2}
    /\ Cardinality(books) = 1

\* the SELECT by id that follows a statement finds one row, and the row holds
\* every value the request gave
OneRowHolding(tbl, key, cols, id, body) ==
    LET results == SelectById(tbl, key, id)
    IN /\ Len(results) = 1
       /\ results[1][key] = id
       /\ \A c \in cols : Specified(body, c) => results[1][c] = Stored(c, body[c])

\* the INSERT, UPDATE and DELETE of one table, each followed by the SELECT
InsertUpdateDelete(create, update, delete, key, cols, before, after) ==
    /\ (req'.op = create /\ resp'.status = 200)
         => /\ ~HasRow(before, key, ReturnedId(create, resp'.body))
            /\ OneRowHolding(after, key, cols, ReturnedId(create, resp'.body),
                             req'.body)
    /\ (req'.op = update /\ resp'.status = 200)
         => OneRowHolding(after, key, cols, req'.id, req'.body)
    /\ (req'.op = delete /\ resp'.status = 200)
         => /\ Len(SelectById(before, key, req'.id)) = 1
            /\ SelectById(after, key, req'.id) = << >>

\* C19: execute_update for an INSERT returns the id of the row it inserted: an
\* execute_query selecting by that id returns exactly one row holding the
\* inserted values; after an UPDATE by that id the row holds the new values,
\* and after a DELETE by that id the select returns no row.
C19_InsertedIdSelects ==
    [][/\ InsertUpdateDelete("create_book", "update_book", "delete_book",
                             "book_id", BookCols, books, books')
       /\ InsertUpdateDelete("create_staff", "update_staff", "delete_staff",
                             "staff_id", StaffCols, staff, staff')
       /\ InsertUpdateDelete("create_reader", "update_reader", "delete_reader",
                             "reader_id", ReaderCols, readers, readers')]_vars

C19_Witness ==
    /\ req.op = "delete_book" /\ resp.status = 200
    /\ req.id = 2 /\ issued.books = {1, 2}
    /\ SelectById(books, "book_id", 2) = << >>
    /\ Len(SelectById(books, "book_id", 1)) = 1
    /\ SelectById(books, "book_id", 1)[1].stock = {5}

\* a PUT body that leaves every field omitted or null
NothingSpecified(body, cols) == \A c \in cols : ~Specified(body, c)

\* such a PUT on an existing record answers 200 with the record as it was and
\* changes no table
EmptyPut(op, key, cols, before, returned) ==
    (/\ req'.op = op /\ NothingSpecified(req'.body, cols)
     /\ HasRow(before, key, req'.id))
      => /\ resp'.status = 200
         /\ returned = {Row(before, key, req'.id)}
         /\ tables' = tables

\* C20: a PUT on an existing book, staff member or reader whose body leaves
\* every field omitted or null returns 200 with the record as it was and
\* leaves the whole store unchanged: a null field is not specified and never
\* overwrites a stored value.
C20_EmptyPutChangesNothing ==
    [][/\ EmptyPut("update_book", "book_id", BookCols, books, resp'.body.book)
       /\ EmptyPut("update_staff", "staff_id", StaffCols, staff, resp'.body.staff)
       /\ EmptyPut("update_reader", "reader_id", ReaderCols,
                   {ParseBorrowed(r) : r \in readers}, resp'.body.reader)]_vars

C20_Witness ==
    /\ req.op = "update_reader" /\ resp.status = 200
    /\ req.body = [name |-> JNull, contact |-> JNull]
    /\ Val(resp.body.reader).contact = {StrC}
    /\ \E r \in books : r.genre = {StrG}

\* C21: in every state reached through the endpoints every reader record's
\* borrowed_books is the empty list: each create stores '[]', POST
\* /readers/advanced with a non-empty details.borrowed_books too, and no update
\* changes it.
C21_BorrowedBooksEmpty ==
    \A r \in readers :
       /\ r.borrowed_books = <<"[", "]">>
       /\ ParseBorrowed(r).borrowed_books = << >>

C21_Witness ==
    /\ req.op = "create_reader_advanced" /\ resp.status = 200
    /\ req.body.details.kind = "obj"
    /\ req.body.details.o.borrowed_books = JList(<<1>>)
    /\ \E r \in readers : r.reader_id = seq.readers /\ r.borrowed_books = <<"[", "]">>

\* C22: POST /init-db creates the tables only if they do not exist: called
\* any number of times in any state it answers 200 and leaves every stored
\* record of books, staff and readers, and the set of tables, unchanged.
C22_InitDatabaseKeepsData ==
    [][req'.op = "initialize_database"
         => /\ resp'.status = 200
            /\ tables' = tables
            /\ schema' = schema
            /\ seq' = seq]_vars

C22_Witness ==
    /\ req.op = "initialize_database" /\ resp.status = 200
    /\ Cardinality(books) = 1 /\ Cardinality(readers) = 1

ReadOnlyOps ==
    {"root", "health_check", "get_books", "get_book", "get_book_advanced",
     "get_staff", "get_staff_member", "get_readers", "get_reader",
     "get_reader_advanced", "validate_book", "validate_reader"}

\* C23: GET /, GET /health, every GET on books, staff and readers (list, by
\* id, advanced), POST /validate/book and POST /validate/reader leave the three
\* tables unchanged, whether they succeed or fail.
C23_ReadOnlyEndpoints ==
    [][req'.op \in ReadOnlyOps
         => (tables' = tables /\ seq' = seq /\ schema' = schema)]_vars

C23_Witness ==
    /\ req.op = "validate_book" /\ resp.status = 200
    /\ Cardinality(books) = 1 /\ seq.books = 2

\* C25: a POST /books answered 200 stores one new row and returns it; the
\* row's title and author are exactly the submitted strings, its stock is 1
\* when the body has no stock key and its genre is null when the body has no
\* genre key.
C25_CreateBookDefaults ==
    [][(req'.op = "create_book" /\ resp'.status = 200)
         => \E r \in books' \ books :
               /\ books' = books \cup {r}
               /\ resp'.body.book = Some(r)
               /\ r.title = req'.body.title.s
               /\ r.author = req'.body.author.s
               /\ (req'.body.stock.kind = "absent" => r.stock = Some(1))
               /\ (req'.body.stock.kind = "int" => r.stock = Some(req'.body.stock.n))
               /\ (req'.body.genre.kind = "absent" => r.genre = None)
               /\ (req'.body.genre.kind = "str" => r.genre = Some(req'.body.genre.s))]_vars

C25_Witness ==
    /\ req.op = "create_book" /\ resp.status = 200
    /\ req.body.stock = JAbsent /\ req.body.genre = JAbsent
    /\ req.body.title = JStr(StrA)
    /\ \E r \in books : /\ r.book_id = seq.books
                        /\ r.title = StrA /\ r.author = StrX
                        /\ r.stock = Some(1) /\ r.genre = None

\* where a line has a character that is not whitespace
Inked(line) == {i \in 1..Len(line) : ~isspace(line[i])}

\* the line from its first to its last character that is not whitespace
Core(line) ==
    IF Inked(line) = {} THEN << >>
    ELSE SubSeq(line, CHOOSE i \in Inked(line) : \A k \in Inked(line) : i <= k,
                      CHOOSE i \in Inked(line) : \A k \in Inked(line) : i >= k)

\* the text before the first ', ' of s, all of s when it has none
UpToSeparator(s) ==
    IF \E i \in 1..(Len(s) - 1) : s[i] = "," /\ s[i + 1] = " "
    THEN SubSeq(s, 1, (CHOOSE i \in 1..(Len(s) - 1) :
                          /\ s[i] = "," /\ s[i + 1] = " "
                          /\ \A k \in 1..(i - 1) : ~(s[k] = "," /\ s[k + 1] = " ")) - 1)
    ELSE s

\* a line that is not blank and has two ', '-separated parts or more
TwoParts(line) ==
    /\ Inked(line) # {}
    /\ UpToSeparator(Core(line)) # Core(line)

PartOne(line) == UpToSeparator(Core(line))

PartTwo(line) ==
    UpToSeparator(SubSeq(Core(line), Len(PartOne(line)) + 3, Len(Core(line))))

\* C26: the conversion of a text file gives exactly one record for each line
\* that is not blank and, without the whitespace around it, has at least two
\* ', '-separated parts; the records come in file order with ids strictly
\* increasing (hence distinct), the first part is the title / name and the
\* second the author / membership_id / position; a blank line and a line of
\* fewer than two parts give no record.
C26_OneRecordPerLine ==
    \A f \in FileNames :
       (json[f] # None /\ removed.line[f] = 0)
         => LET lines == txt[f]
                recs == Val(json[f])
                with == {n \in 1..Len(lines) : TwoParts(lines[n])}
            IN /\ Len(recs) = Cardinality(with)
               /\ {recs[k].id : k \in DOMAIN recs} = with
               /\ \A k \in DOMAIN recs : \A m \in DOMAIN recs :
                     k < m => recs[k].id < recs[m].id
               /\ \A k \in DOMAIN recs :
                     /\ FirstPart(f, recs[k]) = PartOne(lines[recs[k].id])
                     /\ SecondPart(f, recs[k]) = PartTwo(lines[recs[k].id])

C26_Witness ==
    /\ txt.staff = << <<"a", ",", " ">> \o Newline,
                      <<" ", "b", ",", " ", "a", ",", " ", "c">> \o Newline,
                      <<" ">> \o Newline >>
    /\ removed.count = 0
    /\ json.staff # None /\ Len(Val(json.staff)) = 1
    /\ Val(json.staff)[1].id = 2
    /\ Val(json.staff)[1].name = <<"b">> /\ Val(json.staff)[1].position = <<"a">>

\* a string that is not empty and neither begins nor ends with whitespace
Clean(s) == s # << >> /\ ~isspace(s[1]) /\ ~isspace(s[Len(s)])

\* C27 as stated: a book created through POST /books/advanced never has a
\* title or author that is empty or begins or ends with whitespace (every
\* book of SpecAdvanced is created through POST /books/advanced).
C27_AdvancedBooksAlwaysClean ==
    \A r \in books : Clean(r.title) /\ Clean(r.author)

\* C27: the title and author that POST /books/advanced stores and returns,
\* and those in the data POST /validate/book returns, are the submitted ones
\* without the whitespace around them: never empty, never beginning or ending
\* with whitespace.
C27_AdvancedModelsStrip ==
    /\ (req.op = "create_book_advanced" /\ resp.status = 200)
         => /\ resp.body.title = Core(req.body.title.s)
            /\ resp.body.author = Core(req.body.author.s)
            /\ Clean(resp.body.title) /\ Clean(resp.body.author)
            /\ \E r \in books : /\ r.book_id = resp.body.book_id
                                /\ r.title = resp.body.title
                                /\ r.author = resp.body.author
    /\ (req.op = "validate_book" /\ resp.status = 200)
         => /\ resp.body.data.title = Core(req.body.title.s)
            /\ resp.body.data.author = Core(req.body.author.s)
            /\ Clean(resp.body.data.title) /\ Clean(resp.body.data.author)

C27_Witness ==
    /\ req.op = "create_book_advanced" /\ resp.status = 200
    /\ req.body.title = JStr(<<"a", " ">>) /\ req.body.author = JStr(<<" ", "x", " ">>)
    /\ resp.body.title = StrA /\ resp.body.author = StrX
    /\ \E r \in books : r.book_id = resp.body.book_id /\ r.title = StrA

\* the statements that can raise
Statements == {"insert", "check", "read", "update", "reread", "delete"}

\* C24: when a statement of a book handler raises a database error, the
\* step leaves books, staff, readers and sqlite_sequence as they were and
\* ends the handler with an error answer (500, no book); the handler is
\* never answered with success afterwards.
C24_ErrorNeverSuccess ==
    [][/\ req'.op \in Statements
            => /\ inflight'[req'.id].pc # "done" \/ inflight'[req'.id].status = 500
               /\ inflight'[req'.id].status # 200
       /\ (req' # req)
            => /\ req'.op \in Statements
               /\ tables' = tables /\ seq' = seq
               /\ inflight'[req'.id].pc = "done"
               /\ inflight'[req'.id].status = 500
               /\ inflight'[req'.id].book = None]_vars

C24_Witness ==
    /\ req = Request("reread", 2, JAbsent)
    /\ inflight[2].op = "update_book" /\ inflight[2].status = 500
    /\ inflight[1].op = "create_book" /\ inflight[1].status = 200
    /\ \E r \in books : r.book_id = 1 /\ r.title = StrA

====
